---- MODULE Spec2Model ----
(***************************************************************************)
(* Model of the discrete coverage checker of the orbits repository        *)
(* (oc/src/DiscreteCoverageChecker.cpp), of the objects it reads, and of  *)
(* the mission driver (orbitpy/oci/orbitpropcov.cpp).                     *)
(*                                                                         *)
(* Real numbers.  The C++ type Real is an IEEE double: every operation    *)
(* rounds its result, acos of an argument outside [-1, 1] is NaN, a       *)
(* division by zero is Inf or NaN, and a NaN operand makes the result     *)
(* NaN.  The model keeps these rules with a narrower number: a Real is an *)
(* integer count of 1/S, every product and quotient is rounded to the     *)
(* nearest 1/S, and angles are whole degrees (pi is 180).  Lengths are    *)
(* whole kilometres, speeds whole metres per second.  One value, NaN,     *)
(* stands for every non-finite double (NaN, +Inf, -Inf).                  *)
(***************************************************************************)
EXTENDS Integers, Sequences, FiniteSets, TLC

VARIABLES
    sc,           \* Spacecraft *sc: the attitude the checker reads (nadir-to-body matrix)
    sensor,       \* DiscretizedSensor *sensor: heading vectors and body-to-sensor matrix
    centralBody,  \* Earth *centralBody: the reference sphere (its radius)
    call,         \* the call in hand: function, arguments, return value once done
    calls,        \* number of calls the checker has completed
    main          \* the driver: the locals of main() and its position in it

vars == <<sc, sensor, centralBody, call, calls, main>>

----------------------------------------------------------------------------
(* Real arithmetic *)

S == 10000

pi == 180

NaN == -1000000000

IsNaN(a) == a = NaN

Abs(a) == IF a < 0 THEN -a ELSE a

\* a/b rounded to the nearest integer (b # 0), as one rounded double operation
RDiv(a, b) ==
    IF b > 0 THEN (2 * a + b) \div (2 * b)
    ELSE (2 * (-a) + (-b)) \div (2 * (-b))

Add(a, b) == IF IsNaN(a) \/ IsNaN(b) THEN NaN ELSE a + b

Sub(a, b) == IF IsNaN(a) \/ IsNaN(b) THEN NaN ELSE a - b

Neg(a) == IF IsNaN(a) THEN NaN ELSE -a

\* product of a Real (count of 1/S) with another quantity
Mul(a, b) == IF IsNaN(a) \/ IsNaN(b) THEN NaN ELSE RDiv(a * b, S)

\* quotient of two like quantities as a Real; x/0 is Inf or NaN in a double
Div(a, b) ==
    IF IsNaN(a) \/ IsNaN(b) THEN NaN
    ELSE IF b = 0 THEN NaN
    ELSE RDiv(a * S, b)

\* the comparison a < b of doubles: false when an operand is NaN
Lt(a, b) == ~IsNaN(a) /\ ~IsNaN(b) /\ a < b

Le(a, b) == ~IsNaN(a) /\ ~IsNaN(b) /\ a <= b

\* sin of 0..90 degrees, in 1/S
SinTable ==
    <<0, 175, 349, 523, 698, 872, 1045, 1219, 1392, 1564, 1736, 1908, 2079,
      2250, 2419, 2588, 2756, 2924, 3090, 3256, 3420, 3584, 3746, 3907, 4067,
      4226, 4384, 4540, 4695, 4848, 5000, 5150, 5299, 5446, 5592, 5736, 5878,
      6018, 6157, 6293, 6428, 6561, 6691, 6820, 6947, 7071, 7193, 7314, 7431,
      7547, 7660, 7771, 7880, 7986, 8090, 8192, 8290, 8387, 8480, 8572, 8660,
      8746, 8829, 8910, 8988, 9063, 9135, 9205, 9272, 9336, 9397, 9455, 9511,
      9563, 9613, 9659, 9703, 9744, 9781, 9816, 9848, 9877, 9903, 9925, 9945,
      9962, 9976, 9986, 9994, 9998, 10000>>

Sin(a) ==
    IF IsNaN(a) THEN NaN
    ELSE LET d == a % (2 * pi)
         IN  IF d <= pi \div 2 THEN SinTable[d + 1]
             ELSE IF d <= pi THEN SinTable[pi - d + 1]
             ELSE IF d <= 3 * (pi \div 2) THEN -SinTable[d - pi + 1]
             ELSE -SinTable[2 * pi - d + 1]

Cos(a) == IF IsNaN(a) THEN NaN ELSE Sin(a + pi \div 2)

\* the angle of [lo, hi] whose cosine is nearest to x (cos decreases on [0, pi])
RECURSIVE AcosSearch(_, _, _)
AcosSearch(x, lo, hi) ==
    IF hi - lo <= 1
    THEN IF Abs(Cos(lo) - x) <= Abs(Cos(hi) - x) THEN lo ELSE hi
    ELSE LET mid == (lo + hi) \div 2
         IN  IF Cos(mid) >= x THEN AcosSearch(x, mid, hi)
             ELSE AcosSearch(x, lo, mid)

\* acos of a double: NaN outside [-1, 1], else in [0, pi]
Acos(x) ==
    IF IsNaN(x) \/ x > S \/ x < -S THEN NaN
    ELSE AcosSearch(x, 0, pi)

Asin(x) == Sub(pi \div 2, Acos(x))

RECURSIVE SqrtSearch(_, _, _)
SqrtSearch(n, lo, hi) ==
    IF lo >= hi THEN lo
    ELSE LET mid == (lo + hi + 1) \div 2
         IN  IF mid * mid <= n THEN SqrtSearch(n, mid, hi)
             ELSE SqrtSearch(n, lo, mid - 1)

\* square root of a non-negative integer, rounded to the nearest integer
Sqrt(n) ==
    IF IsNaN(n) \/ n < 0 THEN NaN
    ELSE LET f == SqrtSearch(n, 0, 46000)
         IN  IF n - f * f > f THEN f + 1 ELSE f

\* atan2(y, x) in (-pi, pi]; atan2(0, 0) = 0
ATan2(y, x) ==
    IF IsNaN(y) \/ IsNaN(x) THEN NaN
    ELSE IF x = 0 /\ y = 0 THEN 0
    ELSE LET a == Acos(Div(x, Sqrt(x * x + y * y)))
         IN  IF y < 0 THEN -a ELSE a

----------------------------------------------------------------------------
(* Rvector3 and Rmatrix33: tuples of Reals, rows of a matrix first *)

GetMagnitude(v) ==
    IF IsNaN(v[1]) \/ IsNaN(v[2]) \/ IsNaN(v[3]) THEN NaN
    ELSE Sqrt(v[1] * v[1] + v[2] * v[2] + v[3] * v[3])


Normalize(v) ==
    LET mag == GetMagnitude(v)
    IN  IF IsNaN(mag) THEN <<NaN, NaN, NaN>>
        ELSE IF mag = 0 THEN v
        ELSE <<Div(v[1], mag), Div(v[2], mag), Div(v[3], mag)>>

Cross(a, b) ==
    <<Sub(Mul(a[2], b[3]), Mul(a[3], b[2])),
      Sub(Mul(a[3], b[1]), Mul(a[1], b[3])),
      Sub(Mul(a[1], b[2]), Mul(a[2], b[1]))>>

Dot(a, b) == Add(Add(Mul(a[1], b[1]), Mul(a[2], b[2])), Mul(a[3], b[3]))

Transpose(m) == [i \in 1..3 |-> [j \in 1..3 |-> m[j][i]]]

Column(m, j) == <<m[1][j], m[2][j], m[3][j]>>

MatMul(a, b) == [i \in 1..3 |-> [j \in 1..3 |-> Dot(a[i], Column(b, j))]]

MatVec(m, v) == <<Dot(m[1], v), Dot(m[2], v), Dot(m[3], v)>>

Identity == <<<<S, 0, 0>>, <<0, S, 0>>, <<0, 0, S>>>>

\* rotation by 180 degrees about the third (yaw) axis
Yaw180 == <<<<-S, 0, 0>>, <<0, -S, 0>>, <<0, 0, S>>>>

\* rotation by 90 degrees about the first axis
Roll90 == <<<<S, 0, 0>>, <<0, 0, S>>, <<0, -S, 0>>>>

----------------------------------------------------------------------------
(* Collaborators of the checker that the source only calls *)

\* Earth::GetRadius, in km
EarthRadius == 6378

GetRadius(cb) == cb.radius

\* BodyFixedStateConverterUtil::CartesianToSpherical: <<latitude, longitude,
\* height>>, latitude in [-pi/2, pi/2], longitude in (-pi, pi]
CartesianToSpherical(cart, flattening, meanRadius) ==
    LET rMag == GetMagnitude(cart)
    IN  <<Asin(Div(cart[3], rMag)), ATan2(cart[2], cart[1]), Sub(rMag, meanRadius)>>

\* Earth::FixedToTopocentric: body-fixed components to south, east, zenith at
\* the given latitude and longitude
FixedToTopocentric(v, lat, lon) ==
    MatVec(<<<<Mul(Sin(lat), Cos(lon)), Mul(Sin(lat), Sin(lon)), Neg(Cos(lat))>>,
             <<Neg(Sin(lon)), Cos(lon), 0>>,
             <<Mul(Cos(lat), Cos(lon)), Mul(Cos(lat), Sin(lon)), Sin(lat)>>>>, v)

----------------------------------------------------------------------------
(* DiscreteCoverageChecker *)

unitVectorToClockCone(cartesianHeadings) ==
    [i \in 1..Len(cartesianHeadings) |->
        LET spherical == CartesianToSpherical(cartesianHeadings[i], S, S)
        IN  <<spherical[2], Sub(pi \div 2, spherical[1])>>]

\* the locals of projectionAlg, in the order the function computes them
projectionLocals(clock, cone, sphericalPos, cb) ==
    LET r == GetRadius(cb)
        latSSP == sphericalPos[1]
        lonSSP == sphericalPos[2]
        H == sphericalPos[3]
        sinRho == Div(r, Add(r, H))
        epsilon == Acos(Div(Sin(cone), sinRho))
        lambda == Sub(Sub(pi \div 2, cone), epsilon)
        phiE == Neg(clock)
        latPPrime == Acos(Add(Mul(Cos(lambda), Sin(latSSP)),
                              Mul(Mul(Sin(lambda), Cos(latSSP)), Cos(phiE))))
        latP == Sub(pi \div 2, latPPrime)
        deltaL == Acos(Div(Sub(Cos(lambda), Mul(Sin(latSSP), Sin(latP))),
                           Mul(Cos(latSSP), Cos(latP))))
        lonP == IF Lt(clock, pi) THEN Add(lonSSP, deltaL) ELSE Sub(lonSSP, deltaL)
    IN  [sinRho |-> sinRho, epsilon |-> epsilon, lambda |-> lambda,
         latP |-> latP, deltaL |-> deltaL, lonP |-> lonP]

projectionAlg(clock, cone, sphericalPos, cb) ==
    LET l == projectionLocals(clock, cone, sphericalPos, cb)
    IN  <<l.latP, l.lonP>>

\* the access matrix with the velocity projected onto the horizontal and
\* divided by its length, whatever the length
getNadirToSpacecraftAccessMatrix_Unguarded(state_ECF, cb) ==
    LET pos_ECF == <<state_ECF[1], state_ECF[2], state_ECF[3]>>
        vel_ECF == <<state_ECF[4], state_ECF[5], state_ECF[6]>>
        sphericalPos_ECF == CartesianToSpherical(pos_ECF, S, GetRadius(cb))
        vel_T0 == FixedToTopocentric(vel_ECF, sphericalPos_ECF[1], sphericalPos_ECF[2])
        mag == GetMagnitude(<<vel_T0[1], vel_T0[2], 0>>)
        vel_T == <<Div(Neg(vel_T0[1]), mag), Div(vel_T0[2], mag), 0>>
        zHat == <<0, 0, S>>
        xHat == Cross(vel_T, zHat)
    IN  <<<<xHat[1], vel_T[1], zHat[1]>>,
          <<xHat[2], vel_T[2], zHat[2]>>,
          <<xHat[3], vel_T[3], zHat[3]>>>>

getNadirToSpacecraftAccessMatrix(state_ECF, cb) ==
    LET pos_ECF == <<state_ECF[1], state_ECF[2], state_ECF[3]>>
        vel_ECF == <<state_ECF[4], state_ECF[5], state_ECF[6]>>
        sphericalPos_ECF == CartesianToSpherical(pos_ECF, S, GetRadius(cb))
        vel_T0 == FixedToTopocentric(vel_ECF, sphericalPos_ECF[1], sphericalPos_ECF[2])
        vel_T == Normalize(<<Neg(vel_T0[1]), vel_T0[2], Neg(vel_T0[3])>>)
        zHat == <<0, 0, S>>
        xHat == Cross(vel_T, zHat)
    IN  <<<<xHat[1], vel_T[1], zHat[1]>>,
          <<xHat[2], vel_T[2], zHat[2]>>,
          <<xHat[3], vel_T[3], zHat[3]>>>>

\* Spacecraft::GetBodyFixedToReference: body-fixed to the nadir reference
\* frame, third axis to nadir, second against the orbit normal
GetBodyFixedToReference(state_ECF) ==
    LET pos == <<state_ECF[1], state_ECF[2], state_ECF[3]>>
        vel == <<state_ECF[4], state_ECF[5], state_ECF[6]>>
        rHat == Normalize(pos)
        zHat == <<Neg(rHat[1]), Neg(rHat[2]), Neg(rHat[3])>>
        yHat == Normalize(Cross(Normalize(vel), rHat))
        xHat == Cross(yHat, zHat)
    IN  <<xHat, yHat, zHat>>

\* checkIntersection that keeps only the headings that hit the sphere
checkIntersection_DropsMisses(state_ECF, sen, spc, cb) ==
    LET pos == <<state_ECF[1], state_ECF[2], state_ECF[3]>>
        sphericalPos == CartesianToSpherical(pos, S, GetRadius(cb))
        m == MatMul(MatMul(getNadirToSpacecraftAccessMatrix(state_ECF, cb),
                           Transpose(spc.NB)), Transpose(sen.BS))
        clockConeHeadings ==
            unitVectorToClockCone([i \in 1..Len(sen.cartesianHeadings) |->
                                      MatVec(m, sen.cartesianHeadings[i])])
        hit(cc) == ~IsNaN(projectionAlg(cc[1], cc[2], sphericalPos, cb)[1])
        kept == SelectSeq(clockConeHeadings, hit)
    IN  [i \in 1..Len(kept) |->
            projectionAlg(kept[i][1], kept[i][2], sphericalPos, cb)]

checkIntersection(state_ECF, sen, spc, cb) ==
    LET cartesianHeadings == sen.cartesianHeadings
        numPts == Len(cartesianHeadings)
        pos == <<state_ECF[1], state_ECF[2], state_ECF[3]>>
        sphericalPos == CartesianToSpherical(pos, S, GetRadius(cb))
        BS == Transpose(sen.BS)
        NB == Transpose(spc.NB)
        SA_N == getNadirToSpacecraftAccessMatrix(state_ECF, cb)
        inAccessFrame ==
            [i \in 1..numPts |->
                MatVec(MatMul(MatMul(SA_N, NB), BS), cartesianHeadings[i])]
        clockConeHeadings == unitVectorToClockCone(inAccessFrame)
    IN  [i \in 1..numPts |->
            projectionAlg(clockConeHeadings[i][1], clockConeHeadings[i][2],
                          sphericalPos, cb)]

checkPoleIntersection(state_ECF, sen, spc, cb) ==
    LET poleHeadings == sen.poleHeadings
        numPts == Len(poleHeadings)
        BS == Transpose(sen.BS)
        NB == Transpose(spc.NB)
        ECF_N == Transpose(GetBodyFixedToReference(state_ECF))
    IN  [i \in 1..numPts |->
            Normalize(MatVec(MatMul(MatMul(ECF_N, NB), BS), poleHeadings[i]))]

checkCornerIntersection(state_ECF, sen, spc, cb) ==
    LET cornerHeadings == sen.cornerHeadings
        numPts == Len(cornerHeadings)
        pos == <<state_ECF[1], state_ECF[2], state_ECF[3]>>
        sphericalPos == CartesianToSpherical(pos, S, GetRadius(cb))
        BS == Transpose(sen.BS)
        NB == Transpose(spc.NB)
        SA_N == getNadirToSpacecraftAccessMatrix(state_ECF, cb)
        inAccessFrame ==
            [i \in 1..numPts |->
                MatVec(MatMul(MatMul(SA_N, NB), BS), cornerHeadings[i])]
        clockConeHeadings == unitVectorToClockCone(inAccessFrame)
    IN  [i \in 1..numPts |->
            projectionAlg(clockConeHeadings[i][1], clockConeHeadings[i][2],
                          sphericalPos, cb)]

----------------------------------------------------------------------------
(* Inputs *)

\* longest heading sequence a sensor returns
MaxHeadings == 2

\* calls made on one checker object
MaxCalls == 3

\* unit headings (in 1/S): nadir, 30 degrees off nadir to four sides, along
\* the horizontal axes, zenith
HeadingVecs ==
    {<<0, 0, S>>, <<5000, 0, 8660>>, <<0, 5000, 8660>>, <<-5000, 0, 8660>>,
     <<0, -5000, 8660>>, <<S, 0, 0>>, <<-7071, -7071, 0>>, <<0, 0, -S>>}

SeqsUpTo(set, n) == UNION {[1..k -> set] : k \in 0..n}

\* clock angles of the documented range [0, 2*pi)
ClockSet == {0, 45, 90, 180, 270, 315}

ConeSet == {0, 10, 30, 60, 66, 67, 90}

LatSet == {-90, -45, 0, 10, 30, 57, 90}

LonSet == {-179, 0, 120, 180}

\* heights above the sphere, km
HSet == {0, 600, 35786}

\* body-fixed positions (km) at 600 km height: equator, pole, mid-latitudes
PosSet ==
    {<<6978, 0, 0>>, <<0, 6978, 0>>, <<0, 0, 6978>>, <<4934, 0, 4934>>,
     <<-4029, 4029, -4029>>}

\* body-fixed velocity components (m/s)
VelSet == {-7500, 0, 1000, 5300}

\* body-fixed states <<x, y, z (km), vx, vy, vz (m/s)>>: equator eastward,
\* over the pole, mid-latitude climbing
StateSet ==
    {<<6978, 0, 0, 0, 7500, 0>>, <<0, 0, 6978, 7500, 0, 0>>,
     <<4934, 0, 4934, 1000, 5300, 5300>>}

\* sensor-frame headings: boresight, 30 degrees off it, perpendicular to it
BoresightVecs == {<<0, 0, S>>, <<5000, 0, 8660>>, <<S, 0, 0>>}

\* corner headings of a sensor: none, or two corners 30 degrees off boresight
CornerSeqs == {<<>>, <<<<0, 5000, 8660>>, <<0, -5000, 8660>>>>}

PoleSeqs == {<<<<0, S, 0>>>>}

Sensors ==
    [cartesianHeadings : SeqsUpTo(BoresightVecs, MaxHeadings),
     cornerHeadings : CornerSeqs,
     poleHeadings : PoleSeqs,
     BS : {Identity, Roll90}]

Spacecrafts == [NB : {Identity, Yaw180}]

NoCall == [fn |-> "none", done |-> FALSE]

\* the driver is not running
NotStarted == [pc |-> "none"]

----------------------------------------------------------------------------
(* The functions of the checker applied to drawn inputs: the initial state  *)
(* holds a pending call with its arguments, the step runs the function.    *)

ProjectionAlgCalls ==
    {[fn |-> "projectionAlg", done |-> FALSE, clock |-> clock, cone |-> cone,
      sphericalPos |-> <<lat, lon, H>>] :
        clock \in ClockSet, cone \in ConeSet, lat \in LatSet, lon \in LonSet, H \in HSet}

UnitVectorToClockConeCalls ==
    {[fn |-> "unitVectorToClockCone", done |-> FALSE, cartesianHeadings |-> hs] :
        hs \in SeqsUpTo(HeadingVecs, MaxHeadings)}

GetNadirToSpacecraftAccessMatrixCalls ==
    {[fn |-> "getNadirToSpacecraftAccessMatrix", done |-> FALSE,
      state_ECF |-> <<pos[1], pos[2], pos[3], vx, vy, vz>>] :
        pos \in PosSet, vx \in VelSet, vy \in VelSet, vz \in VelSet}

InitFn ==
    /\ sc = [NB |-> Identity]
    /\ sensor = [cartesianHeadings |-> <<>>, cornerHeadings |-> <<>>,
                 poleHeadings |-> <<>>, BS |-> Identity]
    /\ centralBody = [radius |-> EarthRadius]
    /\ call \in ProjectionAlgCalls \cup UnitVectorToClockConeCalls
                  \cup GetNadirToSpacecraftAccessMatrixCalls
    /\ calls = 0
    /\ main = NotStarted

CallProjectionAlg ==
    /\ call.fn = "projectionAlg" /\ ~call.done
    /\ call' = [fn |-> call.fn, done |-> TRUE, clock |-> call.clock,
                cone |-> call.cone, sphericalPos |-> call.sphericalPos,
                ret |-> projectionAlg(call.clock, call.cone, call.sphericalPos,
                                      centralBody)]
    /\ UNCHANGED <<sc, sensor, centralBody, calls, main>>

CallUnitVectorToClockCone ==
    /\ call.fn = "unitVectorToClockCone" /\ ~call.done
    /\ call' = [fn |-> call.fn, done |-> TRUE,
                cartesianHeadings |-> call.cartesianHeadings,
                ret |-> unitVectorToClockCone(call.cartesianHeadings)]
    /\ UNCHANGED <<sc, sensor, centralBody, calls, main>>

CallGetNadirToSpacecraftAccessMatrix ==
    /\ call.fn = "getNadirToSpacecraftAccessMatrix" /\ ~call.done
    /\ call' = [fn |-> call.fn, done |-> TRUE, state_ECF |-> call.state_ECF,
                ret |-> getNadirToSpacecraftAccessMatrix(call.state_ECF, centralBody)]
    /\ UNCHANGED <<sc, sensor, centralBody, calls, main>>

NextFn ==
    \/ CallProjectionAlg
    \/ CallUnitVectorToClockCone
    \/ CallGetNadirToSpacecraftAccessMatrix

SpecFn == InitFn /\ [][NextFn]_vars

----------------------------------------------------------------------------
(* Properties of projectionAlg, unitVectorToClockCone and                  *)
(* getNadirToSpacecraftAccessMatrix, checked under SpecFn                  *)

ProjDone == call.fn = "projectionAlg" /\ call.done

ProjLocals ==
    projectionLocals(call.clock, call.cone, call.sphericalPos, centralBody)

IsFinitePair(p) == ~IsNaN(p[1]) /\ ~IsNaN(p[2])

\* C1: a heading whose cone angle exceeds the horizon limit (sin(cone) >
\* sinRho) is reported as a distinct no-intersection outcome: projectionAlg
\* never returns a NaN latitude-longitude pair for it.
C1_HorizonMissReported ==
    (ProjDone /\ Lt(ProjLocals.sinRho, Sin(call.cone)))
        => IsFinitePair(call.ret)

\* C3: the longitude sign is resolved by the clock angle alone: clock < pi
\* gives lonP = lonSSP + deltaL, clock >= pi gives lonP = lonSSP - deltaL,
\* with deltaL >= 0, so clock = 0 gives lonP >= lonSSP and clock = pi gives
\* lonP <= lonSSP, for every input.
C3_LongitudeSignByClock ==
    ProjDone =>
        LET lonSSP == call.sphericalPos[2]
            deltaL == ProjLocals.deltaL
            lonP == call.ret[2]
        IN  /\ call.clock < pi => lonP = Add(lonSSP, deltaL)
            /\ call.clock >= pi => lonP = Sub(lonSSP, deltaL)
            /\ Le(0, deltaL)
            /\ call.clock = 0 => Le(lonSSP, lonP)
            /\ call.clock = pi => Le(lonP, lonSSP)

ClockConeDone == call.fn = "unitVectorToClockCone" /\ call.done

\* C4: every AnglePair unitVectorToClockCone produces for a unit heading has
\* clock in [0, 2*pi) and cone in [0, pi], so a heading on the western side
\* reaches projectionAlg with clock >= pi.
C4_ClockConeRange ==
    ClockConeDone =>
        \A i \in 1..Len(call.ret) :
            /\ Le(0, call.ret[i][1]) /\ Lt(call.ret[i][1], 2 * pi)
            /\ Le(0, call.ret[i][2]) /\ Le(call.ret[i][2], pi)

IsPole(lat) == lat = pi \div 2 \/ lat = -(pi \div 2)

\* C5: whenever the sub-satellite latitude or the projected latitude is
\* +-pi/2 the division of the deltaL formula is not performed, deltaL is 0,
\* and the returned longitude is lonSSP, never NaN or Inf.
C5_PoleGuard ==
    (ProjDone /\ (IsPole(call.sphericalPos[1]) \/ IsPole(ProjLocals.latP)))
        => /\ ProjLocals.deltaL = 0
           /\ call.ret[2] = call.sphericalPos[2]

AccessDone == call.fn = "getNadirToSpacecraftAccessMatrix" /\ call.done

\* the velocity in topocentric components, as line 93 computes it
TopocentricVelocity(state_ECF, cb) ==
    LET sph == CartesianToSpherical(<<state_ECF[1], state_ECF[2], state_ECF[3]>>,
                                    S, GetRadius(cb))
    IN  FixedToTopocentric(<<state_ECF[4], state_ECF[5], state_ECF[6]>>,
                           sph[1], sph[2])

HasHorizontalVelocity(state_ECF, cb) ==
    LET v == TopocentricVelocity(state_ECF, cb)
    IN  v[1] # 0 \/ v[2] # 0

\* orthonormality within one percent, the rounding of this arithmetic
Tol == S \div 100

Near(a, b) == ~IsNaN(a) /\ ~IsNaN(b) /\ Abs(a - b) <= Tol

Orthonormal(m) ==
    /\ \A j \in 1..3 : Near(Dot(Column(m, j), Column(m, j)), S)
    /\ \A j \in 1..3 : \A k \in 1..3 :
           j < k => Near(Dot(Column(m, j), Column(m, k)), 0)

\* C6: for every state with non-zero horizontal velocity, vertical component
\* or not, the matrix is orthonormal: its columns have unit length and are
\* mutually perpendicular.
C6_AccessMatrixOrthonormal ==
    (AccessDone /\ HasHorizontalVelocity(call.state_ECF, centralBody))
        => Orthonormal(call.ret)

MatrixFinite(m) == \A i \in 1..3 : \A j \in 1..3 : ~IsNaN(m[i][j])

C8_LatLonInRange ==
    (ProjDone /\ Le(Sin(call.cone), ProjLocals.sinRho) /\ IsFinitePair(call.ret))
        => /\ Le(-(pi \div 2), call.ret[1]) /\ Le(call.ret[1], pi \div 2)
           /\ Lt(-pi, call.ret[2]) /\ Le(call.ret[2], pi)

\* C9: for cone = 0, any clock, a non-polar sub-satellite point and H >= 0,
\* projectionAlg returns the sub-satellite point: lambda = 0, deltaL = 0,
\* latP = latSSP and lonP = lonSSP.
C9_NadirHeadingHitsSubSatellitePoint ==
    (ProjDone /\ call.cone = 0 /\ ~IsPole(call.sphericalPos[1])
              /\ call.sphericalPos[3] >= 0)
        => /\ ProjLocals.lambda = 0
           /\ ProjLocals.deltaL = 0
           /\ call.ret = <<call.sphericalPos[1], call.sphericalPos[2]>>

----------------------------------------------------------------------------
(* The checker object: constructed over a spacecraft and a sensor, then    *)
(* called with body-fixed states; the caller takes each returned vector    *)
(* before it calls again.                                                  *)

Init ==
    /\ sc \in Spacecrafts
    /\ sensor \in Sensors
    /\ centralBody = [radius |-> EarthRadius]
    /\ call = NoCall
    /\ calls = 0
    /\ main = NotStarted

\* checkIntersection with the local vector of headings bound by reference to
\* the sensor's vector: the rotation into the access frame lands in the sensor
CheckIntersection_InPlace ==
    \E state_ECF \in StateSet :
        LET m == MatMul(MatMul(getNadirToSpacecraftAccessMatrix(state_ECF, centralBody),
                               Transpose(sc.NB)), Transpose(sensor.BS))
        IN  /\ ~call.done /\ calls < MaxCalls
            /\ call' = [fn |-> "checkIntersection", done |-> TRUE,
                        state_ECF |-> state_ECF,
                        ret |-> checkIntersection(state_ECF, sensor, sc, centralBody)]
            /\ sensor' = [sensor EXCEPT !.cartesianHeadings =
                             [i \in 1..Len(sensor.cartesianHeadings) |->
                                 MatVec(m, sensor.cartesianHeadings[i])]]
            /\ calls' = calls + 1
            /\ UNCHANGED <<sc, centralBody, main>>

CheckIntersection ==
    \E state_ECF \in StateSet :
        /\ ~call.done /\ calls < MaxCalls
        /\ call' = [fn |-> "checkIntersection", done |-> TRUE,
                    state_ECF |-> state_ECF,
                    ret |-> checkIntersection(state_ECF, sensor, sc, centralBody)]
        /\ calls' = calls + 1
        /\ UNCHANGED <<sc, sensor, centralBody, main>>

CheckPoleIntersection ==
    \E state_ECF \in StateSet :
        /\ ~call.done /\ calls < MaxCalls
        /\ call' = [fn |-> "checkPoleIntersection", done |-> TRUE,
                    state_ECF |-> state_ECF,
                    ret |-> checkPoleIntersection(state_ECF, sensor, sc, centralBody)]
        /\ calls' = calls + 1
        /\ UNCHANGED <<sc, sensor, centralBody, main>>

CheckCornerIntersection ==
    \E state_ECF \in StateSet :
        /\ ~call.done /\ calls < MaxCalls
        /\ call' = [fn |-> "checkCornerIntersection", done |-> TRUE,
                    state_ECF |-> state_ECF,
                    ret |-> checkCornerIntersection(state_ECF, sensor, sc, centralBody)]
        /\ calls' = calls + 1
        /\ UNCHANGED <<sc, sensor, centralBody, main>>

\* the caller has taken the returned vector
ReturnToCaller ==
    /\ call.done
    /\ call' = NoCall
    /\ UNCHANGED <<sc, sensor, centralBody, calls, main>>

Next ==
    \/ CheckIntersection
    \/ CheckPoleIntersection
    \/ CheckCornerIntersection
    \/ ReturnToCaller

Spec == Init /\ [][Next]_vars

----------------------------------------------------------------------------
(* Properties of the checker's calls, checked under Spec *)

\* one heading taken through the chain of checkIntersection: rotation into
\* the access frame, clock and cone, projection
ProjectHeading(h, state_ECF, sen, spc, cb) ==
    LET sphericalPos ==
            CartesianToSpherical(<<state_ECF[1], state_ECF[2], state_ECF[3]>>,
                                 S, GetRadius(cb))
        m == MatMul(MatMul(getNadirToSpacecraftAccessMatrix(state_ECF, cb),
                           Transpose(spc.NB)), Transpose(sen.BS))
        cc == unitVectorToClockCone(<<MatVec(m, h)>>)[1]
    IN  projectionAlg(cc[1], cc[2], sphericalPos, cb)

HeadingsOf(fn, sen) ==
    IF fn = "checkIntersection" THEN sen.cartesianHeadings ELSE sen.cornerHeadings

ProjectionCallDone ==
    call.done /\ call.fn \in {"checkIntersection", "checkCornerIntersection"}

\* C2: checkIntersection and checkCornerIntersection return exactly one
\* (lat, lon) per input heading, and element i is the projection of heading
\* i: nothing is dropped or reordered.
C2_OnePairPerHeadingInOrder ==
    ProjectionCallDone =>
        LET hs == HeadingsOf(call.fn, sensor)
        IN  /\ Len(call.ret) = Len(hs)
            /\ \A i \in 1..Len(hs) :
                   call.ret[i] = ProjectHeading(hs[i], call.state_ECF, sensor, sc,
                                                centralBody)

\* two headings, the first hitting the sphere and the second missing it
C2_Witness ==
    /\ call.done /\ call.fn = "checkIntersection"
    /\ Len(sensor.cartesianHeadings) = 2
    /\ Len(call.ret) = 2
    /\ IsFinitePair(call.ret[1])
    /\ call.ret[2] = <<NaN, NaN>>

Rerun(c, sen, spc, cb) ==
    CASE c.fn = "checkIntersection" -> checkIntersection(c.state_ECF, sen, spc, cb)
      [] c.fn = "checkPoleIntersection" -> checkPoleIntersection(c.state_ECF, sen, spc, cb)
      [] c.fn = "checkCornerIntersection" -> checkCornerIntersection(c.state_ECF, sen, spc, cb)

\* C10: a call changes neither the spacecraft, the sensor's heading vectors
\* and rotation matrix, nor a member of the checker, and the same call made
\* again on the state it leaves returns the same result.
C10_CallsArePure ==
    [][(call'.done /\ ~call.done) =>
          /\ sc' = sc
          /\ sensor' = sensor
          /\ centralBody' = centralBody
          /\ call'.ret = Rerun(call', sensor', sc', centralBody')]_vars

\* a call made after two earlier calls, returning a non-empty result
C10_Witness ==
    /\ calls >= 3
    /\ call.done /\ call.fn = "checkPoleIntersection"
    /\ Len(call.ret) > 0
    /\ call.ret = checkPoleIntersection(call.state_ECF, sensor, sc, centralBody)

----------------------------------------------------------------------------
(* The mission driver, orbitpropcov.cpp.  The variable main holds the      *)
(* arguments and locals of main() under their names, pc is the position in *)
(* it; sc is the spacecraft sat1 (its body-nadir offset as the matrix NB,  *)
(* and its Cartesian state).  Time is counted in seconds from the epoch.   *)

\* longest mission duration
MaxDuration == 3

SenTypes ==
    {"CONICAL", "Conical", "RECTANGULAR", "Rectangular", "CUSTOM", "Custom",
     "NONE"}

\* cone angles and clock angles as parsed from the comma-separated arguments
SenCones == {<<>>, <<20>>, <<50>>, <<50, 50>>}

SenClocks == {<<>>, <<0>>, <<0, 180>>}

\* pitch of the sensor in the body frame (degrees)
SenOriens == {0, 30}

StepSizes == {1, 2}

Durations == {0, MaxDuration}

\* longitudes (degrees) of the grid points of the coverage grid file, all on
\* the equator
Grids == {<<0, 30, 90>>, <<180>>}

\* exit status while main is still running
Running == -1

\* exit status of a process killed by a fault
Crashed == 139

\* Propagator::Propagate and Spacecraft::GetCartesianState: the state at the
\* given time on a circular equatorial orbit of 30 degrees per second,
\* <<x, y, z (km), vx, vy, vz (m/s)>>
Propagate(date) ==
    LET ta == 30 * date
    IN  <<RDiv(6978 * Cos(ta), S), RDiv(6978 * Sin(ta), S), 0,
          RDiv(-7500 * Sin(ta), S), RDiv(7500 * Cos(ta), S), 0>>

\* the unsigned angle between two longitudes, in [0, pi]
AngleBetween(a, b) == Abs(((a - b + 3 * pi) % (2 * pi)) - pi)

\* the half-angle of the footprint seen from the Earth's centre: the cone
\* angle of the conical sensor, the widest cone angle of a custom sensor,
\* the horizon when the spacecraft carries no sensor
FootprintHalfAngle(m) ==
    IF m.conicalSensor = "new" THEN m.senCone[1]
    ELSE IF m.customSensor = "new"
    THEN CHOOSE c \in {m.senCone[i] : i \in 1..Len(m.senCone)} :
             \A i \in 1..Len(m.senCone) : m.senCone[i] <= c
    ELSE Acos(Div(EarthRadius, 6978))

\* grid point idx (from 0) is inside the footprint: the footprint is centred
\* ahead of the sub-satellite point by the sensor's pitch, and behind it when
\* the body is yawed by 180 degrees
CheckTargetVisibility(idx, spc, m) ==
    LET pos == <<spc.cartesianState[1], spc.cartesianState[2], spc.cartesianState[3]>>
        lonSSP == CartesianToSpherical(pos, S, EarthRadius)[2]
        centre == lonSSP + RDiv(spc.NB[1][1] * m.senOrien, S)
    IN  AngleBetween(m.lons[idx + 1], centre) <= FootprintHalfAngle(m)

\* CoverageChecker::CheckPointCoverage: the indices of the grid points in
\* view, each once, in grid order
CheckPointCoverage(spc, m) ==
    LET InView(idx) == CheckTargetVisibility(idx, spc, m)
    IN  SelectSeq([i \in 1..Len(m.lons) |-> i - 1], InView)

\* s with x inserted before the first element greater than x (s sorted)
RECURSIVE InsertSorted(_, _)
InsertSorted(s, x) ==
    IF s = <<>> THEN <<x>>
    ELSE IF x < Head(s) THEN <<x>> \o s
    ELSE <<Head(s)>> \o InsertSorted(Tail(s), x)

\* std::sort
RECURSIVE sort(_)
sort(s) == IF s = <<>> THEN <<>> ELSE InsertSorted(sort(Tail(s)), Head(s))

\* std::unique with the erase of its tail: of each run of equal consecutive
\* elements the first is kept
RECURSIVE unique(_)
unique(s) ==
    IF Len(s) <= 1 THEN s
    ELSE IF s[1] = s[2] THEN unique(Tail(s))
    ELSE <<Head(s)>> \o unique(Tail(s))

\* main() after the arguments are read: nothing constructed yet, the object
\* pointers declared without a value
InitMain ==
    /\ \E senType \in SenTypes, senCone \in SenCones, senClock \in SenClocks,
          senOrien \in SenOriens, yaw180_flag \in BOOLEAN,
          stepSize \in StepSizes, duration \in Durations, lons \in Grids :
           main = [pc |-> "validate", senType |-> senType, senCone |-> senCone,
                   senClock |-> senClock, senOrien |-> senOrien,
                   yaw180_flag |-> yaw180_flag, stepSize |-> stepSize,
                   duration |-> duration, lons |-> lons,
                   conicalSensor |-> "uninitialised",
                   customSensor |-> "uninitialised",
                   startDate |-> 0, date |-> 0, nSteps |-> 0,
                   loopPoints |-> <<>>, loopPoints_yaw180 |-> <<>>,
                   satOut |-> <<>>, satAcc |-> <<>>,
                   deleted |-> {}, exitStatus |-> Running]
    /\ sc = [NB |-> Identity, cartesianState |-> Propagate(0)]
    /\ sensor = [cartesianHeadings |-> <<>>, cornerHeadings |-> <<>>,
                 poleHeadings |-> <<>>, BS |-> Identity]
    /\ centralBody = [radius |-> EarthRadius]
    /\ call = NoCall
    /\ calls = 0

\* lines 190-199: the checks of the cone and clock angle lists
ValidateArguments ==
    /\ main.pc = "validate"
    /\ IF Len(main.senCone) = 0
       THEN main' = [main EXCEPT !.pc = "exit", !.exitStatus = 1]
       ELSE IF main.senType # "Conical" /\ Len(main.senCone) # Len(main.senClock)
       THEN main' = [main EXCEPT !.pc = "exit", !.exitStatus = 1]
       ELSE main' = [main EXCEPT !.pc = "sensor"]
    /\ UNCHANGED <<sc, sensor, centralBody, call, calls>>

\* lines 321-337: add the sensor to the satellite
AddSensor ==
    /\ main.pc = "sensor"
    /\ IF main.senType = "CONICAL"
       THEN main' = [main EXCEPT !.conicalSensor = "new", !.pc = "begin"]
       ELSE IF main.senType = "RECTANGULAR" \/ main.senType = "CUSTOM"
       THEN main' = [main EXCEPT !.customSensor = "new", !.pc = "begin"]
       ELSE main' = [main EXCEPT !.pc = "begin"]
    /\ UNCHANGED <<sc, sensor, centralBody, call, calls>>

\* lines 366-406: the start date, the headers of the two files, the
\* propagation to the initial time
BeginPropagation ==
    /\ main.pc = "begin"
    /\ main' = [main EXCEPT !.startDate = main.date, !.nSteps = 0, !.pc = "loop"]
    /\ sc' = [sc EXCEPT !.cartesianState = Propagate(main.date)]
    /\ UNCHANGED <<sensor, centralBody, call, calls>>

\* line 407: the condition of the while loop
LoopCondition ==
    /\ main.pc = "loop"
    /\ IF main.date < main.startDate + main.duration
       THEN main' = [main EXCEPT !.pc = "check"]
       ELSE main' = [main EXCEPT !.pc = "delete"]
    /\ UNCHANGED <<sc, sensor, centralBody, call, calls>>

\* lines 413-416: the coverage check of the tick and the test of the flag
CheckCoverage ==
    /\ main.pc = "check"
    /\ main' = [main EXCEPT !.loopPoints = CheckPointCoverage(sc, main),
                            !.pc = IF main.yaw180_flag THEN "yaw" ELSE "propagate"]
    /\ UNCHANGED <<sc, sensor, centralBody, call, calls>>

\* line 418: rotate the satellite around the yaw axis by 180 degrees
SetYaw180 ==
    /\ main.pc = "yaw"
    /\ sc' = [sc EXCEPT !.NB = Yaw180]
    /\ main' = [main EXCEPT !.pc = "yawcheck"]
    /\ UNCHANGED <<sensor, centralBody, call, calls>>

\* line 422: the coverage check in the yawed attitude
CheckCoverageYaw180 ==
    /\ main.pc = "yawcheck"
    /\ main' = [main EXCEPT !.loopPoints_yaw180 = CheckPointCoverage(sc, main),
                            !.pc = "reset"]
    /\ UNCHANGED <<sc, sensor, centralBody, call, calls>>

\* the tick without line 425: the yaw offset stays on the satellite
ResetAttitude_Skipped ==
    /\ main.pc = "reset"
    /\ main' = [main EXCEPT !.pc = "merge"]
    /\ UNCHANGED <<sc, sensor, centralBody, call, calls>>

\* line 425: reset the satellite attitude to nadir-pointing
ResetAttitude ==
    /\ main.pc = "reset"
    /\ sc' = [sc EXCEPT !.NB = Identity]
    /\ main' = [main EXCEPT !.pc = "merge"]
    /\ UNCHANGED <<sensor, centralBody, call, calls>>

\* lines 427-428 without line 429: the two lists joined and sorted only
MergeLoopPoints_KeepsDuplicates ==
    /\ main.pc = "merge"
    /\ main' = [main EXCEPT
                  !.loopPoints = sort(main.loopPoints \o main.loopPoints_yaw180),
                  !.pc = "propagate"]
    /\ UNCHANGED <<sc, sensor, centralBody, call, calls>>

\* lines 427-429: add the points of the yawed check, sort, remove duplicates
MergeLoopPoints ==
    /\ main.pc = "merge"
    /\ main' = [main EXCEPT
                  !.loopPoints = unique(sort(main.loopPoints \o main.loopPoints_yaw180)),
                  !.pc = "propagate"]
    /\ UNCHANGED <<sc, sensor, centralBody, call, calls>>

\* lines 433-434: advance the date by the step and propagate to it
AdvanceAndPropagate ==
    /\ main.pc = "propagate"
    /\ main' = [main EXCEPT !.date = main.date + main.stepSize, !.pc = "write"]
    /\ sc' = [sc EXCEPT !.cartesianState = Propagate(main.date + main.stepSize)]
    /\ UNCHANGED <<sensor, centralBody, call, calls>>

\* the access row of lines 453-465: one cell per grid point
AccessCells(loopPoints, numGridPoints) ==
    LET accessRow == [k \in 1..numGridPoints |->
                         IF \E j \in 1..Len(loopPoints) : loopPoints[j] = k - 1
                         THEN 1 ELSE 0]
    IN  [k \in 1..numGridPoints |-> IF accessRow[k] = 1 THEN "1" ELSE ""]

\* lines 436-468 with the test of line 451 left out: a row at every tick
WriteRows_EveryTick ==
    /\ main.pc = "write"
    /\ LET time == main.nSteps * main.stepSize
       IN  main' = [main EXCEPT
                      !.satOut = Append(@, [time |-> time,
                                            cartState |-> sc.cartesianState]),
                      !.satAcc = Append(@, [time |-> time,
                                            cells |-> AccessCells(main.loopPoints,
                                                                  Len(main.lons))]),
                      !.nSteps = @ + 1,
                      !.pc = "loop"]
    /\ UNCHANGED <<sc, sensor, centralBody, call, calls>>

\* lines 436-468: the state row, the access row when a point is accessed,
\* the step count
WriteRows ==
    /\ main.pc = "write"
    /\ LET time == main.nSteps * main.stepSize
       IN  main' = [main EXCEPT
                      !.satOut = Append(@, [time |-> time,
                                            cartState |-> sc.cartesianState]),
                      !.satAcc = IF Len(main.loopPoints) > 0
                                 THEN Append(@, [time |-> time,
                                                 cells |-> AccessCells(main.loopPoints,
                                                                       Len(main.lons))])
                                 ELSE @,
                      !.nSteps = @ + 1,
                      !.pc = "loop"]
    /\ UNCHANGED <<sc, sensor, centralBody, call, calls>>

\* lines 489-502: delete the objects.  A delete of a pointer that was never
\* assigned is undefined: the process goes on as if nothing happened, or it
\* is killed.
DeleteObjects ==
    /\ main.pc = "delete"
    /\ LET applied ==
               IF main.senType = "Conical" THEN {"conicalSensor"}
               ELSE IF main.senType = "Custom" \/ main.senType = "Rectangular"
               THEN {"customSensor"}
               ELSE {}
           undefined ==
               \/ "conicalSensor" \in applied /\ main.conicalSensor = "uninitialised"
               \/ "customSensor" \in applied /\ main.customSensor = "uninitialised"
       IN  \E status \in {0, Crashed} :
               /\ status = Crashed => undefined
               /\ main' = [main EXCEPT !.deleted = applied, !.pc = "exit",
                                       !.exitStatus = status]
    /\ UNCHANGED <<sc, sensor, centralBody, call, calls>>

NextMain ==
    \/ ValidateArguments
    \/ AddSensor
    \/ BeginPropagation
    \/ LoopCondition
    \/ CheckCoverage
    \/ SetYaw180
    \/ CheckCoverageYaw180
    \/ ResetAttitude
    \/ MergeLoopPoints
    \/ AdvanceAndPropagate
    \/ WriteRows
    \/ DeleteObjects

SpecMain == InitMain /\ [][NextMain]_vars

----------------------------------------------------------------------------
(* Properties of the driver, checked under SpecMain *)

Range(s) == {s[i] : i \in 1..Len(s)}

NoDuplicates(s) ==
    \A i \in 1..Len(s) : \A j \in 1..Len(s) : i # j => s[i] # s[j]

\* the satellite at the instant of tick n, epoch + n * stepSize, in the
\* attitude nb
SatelliteAtTick(n, nb) ==
    [NB |-> nb, cartesianState |-> Propagate(main.startDate + n * main.stepSize)]

\* the grid points in view at tick n in the attitude nb
VisibleAtTick(n, nb) == Range(CheckPointCoverage(SatelliteAtTick(n, nb), main))

\* the list of the tick is complete: the row is about to be produced from it
LoopPointsComplete == main.pc \in {"propagate", "write"}

\* C11: at every tick the list of visible grid-point indices from which the
\* access row is produced has no duplicate index, and when yaw180_flag is set
\* it is exactly the union of the indices visible in the nadir attitude and
\* of those visible in the attitude yawed by 180 degrees at that tick.
C11_LoopPointsDeduplicatedUnion ==
    LoopPointsComplete =>
        /\ NoDuplicates(main.loopPoints)
        /\ main.yaw180_flag =>
               Range(main.loopPoints) =
                   VisibleAtTick(main.nSteps, Identity)
                       \cup VisibleAtTick(main.nSteps, Yaw180)

\* a tick with the flag set where a point is in view in both attitudes and
\* another in one of them only
C11_Witness ==
    /\ main.pc = "write"
    /\ main.yaw180_flag
    /\ VisibleAtTick(main.nSteps, Identity) \cap VisibleAtTick(main.nSteps, Yaw180) # {}
    /\ VisibleAtTick(main.nSteps, Identity) # VisibleAtTick(main.nSteps, Yaw180)
    /\ Len(main.loopPoints) >= 2
    /\ NoDuplicates(main.loopPoints)

\* the grid points accessed at tick n: those of the nadir check and, with
\* the flag set, those of the yawed check
AccessedAtTick(n) ==
    VisibleAtTick(n, Identity)
        \cup (IF main.yaw180_flag THEN VisibleAtTick(n, Yaw180) ELSE {})

\* the rows of a file that carry the time label of tick n
RowsOfTick(file, n) == {i \in 1..Len(file) : file[i].time = n * main.stepSize}

C13_NadirPointingAtCheckAndPropagate ==
    main.pc \in {"begin", "check", "propagate"} => sc.NB = Identity

\* the primary check of a later tick, after a tick that yawed the satellite
C13_Witness ==
    /\ main.pc = "check"
    /\ main.yaw180_flag
    /\ main.nSteps >= 1
    /\ sc.NB = Identity

\* the arguments passed the checks of lines 190-199 or main has left by them
Validated == main.pc # "validate"

NoSensorCreated ==
    main.conicalSensor = "uninitialised" /\ main.customSensor = "uninitialised"

\* C14: the cone and clock angle lists must be of equal length only for
\* non-conical sensors: for the sensor type that creates a ConicalSensor, one
\* cone angle with a different number of clock angles passes validation and
\* reaches sensor creation, while for the types that create a CustomSensor a
\* length mismatch exits with status 1 before any sensor is created.
C14_ConicalExemptFromLengthCheck ==
    Validated =>
        /\ (/\ main.senType = "CONICAL"
            /\ Len(main.senCone) = 1
            /\ Len(main.senClock) # Len(main.senCone))
               => main.exitStatus # 1
        /\ (/\ main.senType \in {"RECTANGULAR", "CUSTOM"}
            /\ Len(main.senClock) # Len(main.senCone))
               => main.exitStatus = 1 /\ NoSensorCreated

\* C15: in the satellite state file the row with time label t (nSteps *
\* stepSize, referenced to the epoch) holds the Cartesian state at epoch + t,
\* the instant at which the access row of label t was evaluated; the first
\* row, t = 0, holds the state at the epoch.
C15_StateRowAtItsLabel ==
    /\ \A i \in 1..Len(main.satOut) :
           main.satOut[i].cartState =
               Propagate(main.startDate + main.satOut[i].time)
    /\ Len(main.satOut) >= 1 =>
           /\ main.satOut[1].time = 0
           /\ main.satOut[1].cartState = Propagate(main.startDate)

SensorPointers == {"conicalSensor", "customSensor"}

\* C16: at shutdown a sensor object is deleted if and only if it was created
\* during setup: for every sensor type, delete is never applied to a
\* conicalSensor or customSensor pointer that was not assigned by new, and
\* every sensor created by new is deleted.
C16_DeleteIffCreated ==
    /\ \A p \in SensorPointers : p \in main.deleted => main[p] = "new"
    /\ (main.pc = "exit" /\ main.exitStatus # 1) =>
           \A p \in SensorPointers : main[p] = "new" => p \in main.deleted

====
